---- MODULE Spec2Model ----
(***************************************************************************)
(* Model of src/server.mjs: the configuration resolver (loadConfig), the   *)
(* AWS RDS trust-bundle cache (ensureRdsCertificate,                       *)
(* downloadRdsCertificate, certificateCache) and the file system and       *)
(* network they act on.                                                    *)
(*                                                                         *)
(* JavaScript values are tagged records, so that undefined, strings and    *)
(* numbers can sit in the same field.  A string is a sequence of tokens:   *)
(* single characters where the code looks at characters (parseInt, the     *)
(* URL parser) and atomic chunks elsewhere.  String.includes(needle) is a  *)
(* search of the sequence for the needle's token.                          *)
(***************************************************************************)
EXTENDS Integers, Sequences, FiniteSets, TLC

\* ------------------------------------------------------------ JS values

Undefined == [t |-> "undefined"]
Null == [t |-> "null"]
NaN == [t |-> "nan"]
Str(s) == [t |-> "string", s |-> s]
Num(n) == [t |-> "number", n |-> n]
Bool(b) == [t |-> "boolean", b |-> b]

\* ToBoolean: undefined, null, NaN, "", 0 and false are falsy.
Truthy(v) ==
  CASE v.t = "undefined" -> FALSE
    [] v.t = "null" -> FALSE
    [] v.t = "nan" -> FALSE
    [] v.t = "string" -> v.s # <<>>
    [] v.t = "number" -> v.n # 0
    [] v.t = "boolean" -> v.b
    [] OTHER -> TRUE

\* a || b
Or(a, b) == IF Truthy(a) THEN a ELSE b

\* s.includes(needle), the needle being one token
Includes(s, needle) == \E i \in 1..Len(s) : s[i] = needle

\* ------------------------------------------------------------ parseInt

DigitChars == {"0", "1", "2", "3", "4", "5", "6", "7", "8", "9"}

DigitValue(c) ==
  CASE c = "0" -> 0 [] c = "1" -> 1 [] c = "2" -> 2 [] c = "3" -> 3
    [] c = "4" -> 4 [] c = "5" -> 5 [] c = "6" -> 6 [] c = "7" -> 7
    [] c = "8" -> 8 [] c = "9" -> 9

\* the length of the longest prefix of s made of digits
RECURSIVE DigitPrefixLen(_)
DigitPrefixLen(s) ==
  IF s = <<>> \/ Head(s) \notin DigitChars THEN 0
  ELSE 1 + DigitPrefixLen(Tail(s))

\* the decimal value of a sequence of digits
RECURSIVE DigitsValue(_, _)
DigitsValue(s, acc) ==
  IF s = <<>> THEN acc
  ELSE DigitsValue(Tail(s), 10 * acc + DigitValue(Head(s)))

\* parseInt(v): leading blanks skipped, an optional sign, then the longest
\* run of digits; NaN when there is no digit (also for undefined).
RECURSIVE SkipBlanks(_)
SkipBlanks(s) == IF s # <<>> /\ Head(s) = " " THEN SkipBlanks(Tail(s)) ELSE s

parseInt(v) ==
  IF v.t # "string" THEN NaN
  ELSE LET s0 == SkipBlanks(v.s)
           neg == s0 # <<>> /\ Head(s0) = "-"
           s1 == IF s0 # <<>> /\ Head(s0) \in {"-", "+"} THEN Tail(s0) ELSE s0
           n == DigitPrefixLen(s1)
       IN IF n = 0 THEN NaN
          ELSE LET m == DigitsValue(SubSeq(s1, 1, n), 0)
               IN Num(IF neg THEN 0 - m ELSE m)

\* ------------------------------------------------------------ new URL(...)

\* the index of the first tok in s, or 0
RECURSIVE IndexFrom(_, _, _)
IndexFrom(s, toks, i) ==
  IF i > Len(s) THEN 0
  ELSE IF s[i] \in toks THEN i
  ELSE IndexFrom(s, toks, i + 1)

IndexOf(s, toks) == IndexFrom(s, toks, 1)

\* the index of the last tok in s, or 0
RECURSIVE LastIndexFrom(_, _, _)
LastIndexFrom(s, toks, i) ==
  IF i < 1 THEN 0
  ELSE IF s[i] \in toks THEN i
  ELSE LastIndexFrom(s, toks, i - 1)

LastIndexOf(s, toks) == LastIndexFrom(s, toks, Len(s))

\* s from index i on; s before index i
From(s, i) == SubSeq(s, i, Len(s))
Before(s, i) == SubSeq(s, 1, i - 1)

\* s split at the first token of toks: the part before it, and the part
\* from it on (s and the empty string when there is none)
UpTo(s, toks) == IF IndexOf(s, toks) = 0 THEN s ELSE Before(s, IndexOf(s, toks))
FromFirst(s, toks) == IF IndexOf(s, toks) = 0 THEN <<>> ELSE From(s, IndexOf(s, toks))
AfterFirst(s, toks) == IF IndexOf(s, toks) = 0 THEN <<>> ELSE From(s, IndexOf(s, toks) + 1)

\* the parts of scheme://[user[:password]@]host[:port][/path][?query]
UrlAuthority(s) == UpTo(From(s, 3), {"/", "?"})
UrlPath(s) == UpTo(FromFirst(From(s, 3), {"/", "?"}), {"?"})
UrlQuery(s) == AfterFirst(FromFirst(From(s, 3), {"/", "?"}), {"?"})
UrlUserInfo(a) == IF LastIndexOf(a, {"@"}) = 0 THEN <<>> ELSE Before(a, LastIndexOf(a, {"@"}))
UrlHostPort(a) == IF LastIndexOf(a, {"@"}) = 0 THEN a ELSE From(a, LastIndexOf(a, {"@"}) + 1)
UrlPort(s) == AfterFirst(UrlHostPort(UrlAuthority(s)), {":"})

\* searchParams.get(key): the value of the first key=value of the query,
\* null when the query has no such key
SearchParam(query, key) ==
  IF IndexOf(query, {key}) = 0 THEN Null
  ELSE Str(UpTo(From(query, IndexOf(query, {key}) + 2), {"&"}))

\* new URL(v) for a URL with a scheme that has no default port (postgres,
\* postgresql).  ok is FALSE where the constructor throws TypeError: no
\* scheme, or a port that is not a number of 0..65535.
URL(v) ==
  IF \/ Len(v.s) < 2
     \/ v.s[2] # "://"
     \/ DigitPrefixLen(UrlPort(v.s)) # Len(UrlPort(v.s))
     \/ DigitsValue(UrlPort(v.s), 0) > 65535
    THEN [ok |-> FALSE]
  ELSE [ok |-> TRUE,
        username |-> Str(UpTo(UrlUserInfo(UrlAuthority(v.s)), {":"})),
        password |-> Str(AfterFirst(UrlUserInfo(UrlAuthority(v.s)), {":"})),
        hostname |-> Str(UpTo(UrlHostPort(UrlAuthority(v.s)), {":"})),
        port |-> Str(UrlPort(v.s)),
        pathname |-> Str(UrlPath(v.s)),
        sslmode |-> SearchParam(UrlQuery(v.s), "sslmode")]

\* Slice1 that keeps the whole path
Slice1Keep(v) == v

\* pathname.slice(1): the path without its first character, the "/"
Slice1(v) == Str(IF v.s = <<>> THEN <<>> ELSE Tail(v.s))


\* ------------------------------------------------------------ loadConfig

RdsSuffix == ".rds.amazonaws.com"

\* hostname && hostname.includes('.rds.amazonaws.com')
isAwsRdsEndpoint(hostname) ==
  Truthy(hostname) /\ Includes(hostname.s, RdsSuffix)

\* SslOf with every value other than 'require' read as 'disable'
SslOfLax(sslMode) ==
  IF sslMode = Str(<<"require">>) THEN [t |-> "object", rejectUnauthorized |-> FALSE]
  ELSE Bool(FALSE)

\* sslMode === 'require' ? { rejectUnauthorized: false }
\*   : sslMode === 'disable' ? false : true
SslOf(sslMode) ==
  IF sslMode = Str(<<"require">>) THEN [t |-> "object", rejectUnauthorized |-> FALSE]
  ELSE IF sslMode = Str(<<"disable">>) THEN Bool(FALSE)
  ELSE Bool(TRUE)

\* the ssl value of the fallback branches
FallbackSsl == [t |-> "object", rejectUnauthorized |-> FALSE]

\* { rejectUnauthorized: true, ca: <contents of the bundle> }
VerifySsl(content) == [t |-> "object", rejectUnauthorized |-> TRUE, ca |-> Str(content)]

\* a config.db object; a missing key reads as undefined
DbObject(host, port, user, password, database, sslmode, ssl) ==
  [t |-> "object", host |-> host, port |-> port, user |-> user,
   password |-> password, database |-> database, sslmode |-> sslmode, ssl |-> ssl]

\* What loadConfig has done when it returns, throws or reaches its await:
\* the source it took, whether it threw, config.db, and whether it goes on
\* to ensureRdsCertificate.
Outcome(source, threw, db, needCert) ==
  [source |-> source, threw |-> threw, db |-> db, needCert |-> needCert]

\* FromEnvVars with a host that falls back to the host of DATABASE_URL
FromEnvVarsUrlHost(env) ==
  LET urlHost == IF Truthy(env.DATABASE_URL) /\ URL(env.DATABASE_URL).ok
                   THEN URL(env.DATABASE_URL).hostname ELSE Undefined
      db == DbObject(
              Or(Or(Or(env.DB_HOST, env.POSTGRES_HOST), urlHost), Str(<<"localhost">>)),
              Or(parseInt(Or(env.DB_PORT, env.POSTGRES_PORT)), Num(5432)),
              Or(Or(env.DB_USER, env.POSTGRES_USER), Str(<<"postgres">>)),
              Or(Or(env.DB_PASSWORD, env.POSTGRES_PASSWORD), Str(<<>>)),
              Or(Or(env.DB_NAME, env.POSTGRES_DB), Str(<<"postgres">>)),
              Undefined, Undefined)
      sslMode == Or(env.DB_SSL_MODE, env.POSTGRES_SSL_MODE)
  IN IF Truthy(sslMode)
       THEN Outcome(1, FALSE, [db EXCEPT !.ssl = SslOf(sslMode)], FALSE)
     ELSE IF isAwsRdsEndpoint(db.host) THEN Outcome(1, FALSE, db, TRUE)
     ELSE Outcome(1, FALSE, db, FALSE)

\* FromEnvVars with the alias variable read before the primary one
FromEnvVarsAliasFirst(env) ==
  LET db == DbObject(
              Or(Or(env.POSTGRES_HOST, env.DB_HOST), Str(<<"localhost">>)),
              Or(parseInt(Or(env.POSTGRES_PORT, env.DB_PORT)), Num(5432)),
              Or(Or(env.POSTGRES_USER, env.DB_USER), Str(<<"postgres">>)),
              Or(Or(env.POSTGRES_PASSWORD, env.DB_PASSWORD), Str(<<>>)),
              Or(Or(env.POSTGRES_DB, env.DB_NAME), Str(<<"postgres">>)),
              Undefined, Undefined)
      sslMode == Or(env.POSTGRES_SSL_MODE, env.DB_SSL_MODE)
  IN IF Truthy(sslMode)
       THEN Outcome(1, FALSE, [db EXCEPT !.ssl = SslOf(sslMode)], FALSE)
     ELSE IF isAwsRdsEndpoint(db.host) THEN Outcome(1, FALSE, db, TRUE)
     ELSE Outcome(1, FALSE, db, FALSE)

\* source 1: the per-field environment variables
FromEnvVars(env) ==
  LET db == DbObject(
              Or(Or(env.DB_HOST, env.POSTGRES_HOST), Str(<<"localhost">>)),
              Or(parseInt(Or(env.DB_PORT, env.POSTGRES_PORT)), Num(5432)),
              Or(Or(env.DB_USER, env.POSTGRES_USER), Str(<<"postgres">>)),
              Or(Or(env.DB_PASSWORD, env.POSTGRES_PASSWORD), Str(<<>>)),
              Or(Or(env.DB_NAME, env.POSTGRES_DB), Str(<<"postgres">>)),
              Undefined, Undefined)
      sslMode == Or(env.DB_SSL_MODE, env.POSTGRES_SSL_MODE)
  IN IF Truthy(sslMode)
       THEN Outcome(1, FALSE, [db EXCEPT !.ssl = SslOf(sslMode)], FALSE)
     ELSE IF isAwsRdsEndpoint(db.host) THEN Outcome(1, FALSE, db, TRUE)
     ELSE Outcome(1, FALSE, db, FALSE)

\* source 2: DATABASE_URL
FromDatabaseUrl(env) ==
  LET url == URL(env.DATABASE_URL)
  IN IF ~url.ok THEN Outcome(2, TRUE, Undefined, FALSE)
     ELSE
       LET db == DbObject(url.hostname,
                          Or(parseInt(url.port), Num(5432)),
                          url.username, url.password, Slice1(url.pathname),
                          Undefined, Undefined)
           sslMode == Or(Or(url.sslmode, env.DB_SSL_MODE), env.POSTGRES_SSL_MODE)
       IN IF Truthy(sslMode)
            THEN Outcome(2, FALSE, [db EXCEPT !.ssl = SslOf(sslMode)], FALSE)
          ELSE IF isAwsRdsEndpoint(db.host) THEN Outcome(2, FALSE, db, TRUE)
          ELSE Outcome(2, FALSE, db, FALSE)

\* source 3: config.json.  JSON.parse throws on text that is not JSON;
\* config.db throws on the JSON value null; hostname.includes throws on a
\* truthy host that is not a string.
FromConfigFile(configFile) ==
  IF configFile.parse # "ok" THEN Outcome(3, TRUE, Undefined, FALSE)
  ELSE
    LET config == configFile.value
    IN IF config.t = "null" THEN Outcome(3, TRUE, Undefined, FALSE)
       ELSE
         LET db == IF config.t = "object" THEN config.db ELSE Undefined
         IN IF Truthy(db) /\ Truthy(db.sslmode)
              THEN Outcome(3, FALSE,
                           [db EXCEPT !.sslmode = Undefined, !.ssl = SslOf(db.sslmode)],
                           FALSE)
            ELSE IF Truthy(db) /\ Truthy(db.host) /\ db.host.t # "string"
              THEN Outcome(3, TRUE, Undefined, FALSE)
            ELSE IF Truthy(db) /\ isAwsRdsEndpoint(db.host)
              THEN Outcome(3, FALSE, db, TRUE)
            ELSE Outcome(3, FALSE, db, FALSE)

\* source 4: the default configuration
DefaultConfig ==
  Outcome(4, FALSE,
          DbObject(Str(<<"localhost">>), Num(5432), Str(<<"postgres">>),
                   Str(<<"postgres">>), Str(<<"postgres">>), Undefined, Bool(FALSE)),
          FALSE)

\* SelectSource with DATABASE_URL looked at before the per-field variables
SelectSourceUrlFirst(env, configFile) ==
  IF Truthy(env.DATABASE_URL) THEN 2
  ELSE IF \/ Truthy(env.DB_HOST) \/ Truthy(env.POSTGRES_HOST)
          \/ Truthy(env.DB_USER) \/ Truthy(env.POSTGRES_USER) THEN 1
  ELSE IF configFile.exists THEN 3
  ELSE 4

\* which source loadConfig takes: the chain of its four if-statements
SelectSource(env, configFile) ==
  IF \/ Truthy(env.DB_HOST) \/ Truthy(env.POSTGRES_HOST)
     \/ Truthy(env.DB_USER) \/ Truthy(env.POSTGRES_USER) THEN 1
  ELSE IF Truthy(env.DATABASE_URL) THEN 2
  ELSE IF configFile.exists THEN 3
  ELSE 4

\* loadConfig up to its return, its throw or its await
loadConfigSync(env, configFile) ==
  CASE SelectSource(env, configFile) = 1 -> FromEnvVars(env)
    [] SelectSource(env, configFile) = 2 -> FromDatabaseUrl(env)
    [] SelectSource(env, configFile) = 3 -> FromConfigFile(configFile)
    [] OTHER -> DefaultConfig


\* ------------------------------------------------------------ the trust-bundle cache

\* path.join(CERT_CACHE_DIR, "rds-global-bundle.pem")
CERT_FILE_PATH == Str(<<".aws-certs", "/", "rds-global-bundle.pem">>)

BeginMarker == "-----BEGIN CERTIFICATE-----"
EndMarker == "-----END CERTIFICATE-----"

\* the age, in days, below which a cached bundle is reused
ValidityDays == 30

\* The file at CERT_FILE_PATH: whether it exists, its age in days
\* ((Date.now() - mtime) / one day) and its contents.
File(exists, age, content) == [exists |-> exists, age |-> age, content |-> content]
NoFile == File(FALSE, 0, <<>>)

\* HasMarkers with || in place of &&
HasEitherMarker(content) == Includes(content, BeginMarker) \/ Includes(content, EndMarker)

\* certContent.includes(BEGIN) && certContent.includes(END)
HasMarkers(content) == Includes(content, BeginMarker) /\ Includes(content, EndMarker)

\* IsRecent with <= in place of <
IsRecentInclusive(age) == age <= ValidityDays

\* ageInDays < 30
IsRecent(age) == age < ValidityDays

\* The failures the environment injects into one resolution: mkdirSync,
\* statSync and readFileSync throwing, and the write stream failing to open.
Fault(mkdir, stat, read, open) == [mkdir |-> mkdir, stat |-> stat, read |-> read, open |-> open]
NoFault == Fault(FALSE, FALSE, FALSE, FALSE)
\* The faults that can show in a resolution entered with this memo,
\* directory and file: a step that is not run cannot fail.
Faults(memo, dir, f) ==
  {NoFault, Fault(FALSE, FALSE, TRUE, FALSE)}
  \cup (IF ~Truthy(memo) /\ ~dir THEN {Fault(TRUE, FALSE, FALSE, FALSE)} ELSE {})
  \cup (IF ~Truthy(memo) /\ f.exists THEN {Fault(FALSE, TRUE, FALSE, FALSE)} ELSE {})
  \cup (IF ~Truthy(memo) THEN {Fault(FALSE, FALSE, FALSE, TRUE)} ELSE {})

\* ensureSync without the inner try: a failed read ends in the outer catch
ensureSyncNoInnerTry(memo, dir, f, fault) ==
  IF Truthy(memo) THEN "memo"
  ELSE IF ~dir /\ fault.mkdir THEN "null"
  ELSE IF f.exists
    THEN IF fault.stat THEN "null"
         ELSE IF IsRecent(f.age)
           THEN IF fault.read THEN "null"
                ELSE IF HasMarkers(f.content) THEN "cached"
                ELSE "download"
         ELSE "download"
  ELSE "download"

\* ensureSync that returns the memoized path only while the file is recent
ensureSyncRevalidate(memo, dir, f, fault) ==
  IF Truthy(memo) /\ f.exists /\ IsRecent(f.age) THEN "memo"
  ELSE IF ~dir /\ fault.mkdir THEN "null"
  ELSE IF f.exists
    THEN IF fault.stat THEN "null"
         ELSE IF IsRecent(f.age)
           THEN IF ~fault.read /\ HasMarkers(f.content) THEN "cached"
                ELSE "download"
         ELSE "download"
  ELSE "download"

\* ensureSync without the check of the memoized path
ensureSyncNoMemo(memo, dir, f, fault) ==
  IF ~dir /\ fault.mkdir THEN "null"
  ELSE IF f.exists
    THEN IF fault.stat THEN "null"
         ELSE IF IsRecent(f.age)
           THEN IF ~fault.read /\ HasMarkers(f.content) THEN "cached"
                ELSE "download"
         ELSE "download"
  ELSE "download"

\* ensureRdsCertificate up to its return or its await of the download:
\*   "memo"     the memoized path is returned
\*   "cached"   the cache file is recent and has both markers: memoized, returned
\*   "null"     a step threw; the catch returns null
\*   "download" downloadRdsCertificate() is called
ensureSync(memo, dir, f, fault) ==
  IF Truthy(memo) THEN "memo"
  ELSE IF ~dir /\ fault.mkdir THEN "null"
  ELSE IF f.exists
    THEN IF fault.stat THEN "null"
         ELSE IF IsRecent(f.age)
           THEN IF ~fault.read /\ HasMarkers(f.content) THEN "cached"
                ELSE "download"
         ELSE "download"
  ELSE "download"

\* the cache directory after ensureRdsCertificate's mkdirSync
DirAfterEnsure(memo, dir, fault) ==
  IF Truthy(memo) \/ fault.mkdir THEN dir ELSE TRUE

\* fs.createWriteStream(CERT_FILE_PATH): the open creates the file or
\* truncates it, unless the open fails
OpenForWrite(f, fault) == IF fault.open THEN f ELSE File(TRUE, 0, <<>>)

\* a write of chunk at offset pos (counted in tokens) into content; the
\* gap a truncation by another writer leaves is filled with NUL
WriteAt(content, pos, chunk) ==
  LET n == IF Len(content) > pos + Len(chunk) THEN Len(content) ELSE pos + Len(chunk)
  IN [i \in 1..n |->
        IF i > pos /\ i <= pos + Len(chunk) THEN chunk[i - pos]
        ELSE IF i <= Len(content) THEN content[i]
        ELSE "NUL"]

\* the number of tokens in the first k chunks of body
RECURSIVE Offset(_, _)
Offset(body, k) == IF k = 0 THEN 0 ELSE Offset(body, k - 1) + Len(body[k])

\* SslAfterEnsure with a fallback that asks for verification
SslAfterEnsureStrict(certPath, f, fault) ==
  IF Truthy(certPath) /\ f.exists /\ ~fault.read THEN VerifySsl(f.content)
  ELSE Bool(TRUE)

\* loadConfig after its await: certPath && fs.existsSync(certPath), then
\* readFileSync inside the try
SslAfterEnsure(certPath, f, fault) ==
  IF Truthy(certPath) /\ f.exists /\ ~fault.read THEN VerifySsl(f.content)
  ELSE FallbackSsl


\* ------------------------------------------------------------ the inputs

\* process.env with nothing set
NoEnv ==
  [DB_HOST |-> Undefined, POSTGRES_HOST |-> Undefined,
   DB_PORT |-> Undefined, POSTGRES_PORT |-> Undefined,
   DB_USER |-> Undefined, POSTGRES_USER |-> Undefined,
   DB_PASSWORD |-> Undefined, POSTGRES_PASSWORD |-> Undefined,
   DB_NAME |-> Undefined, POSTGRES_DB |-> Undefined,
   DB_SSL_MODE |-> Undefined, POSTGRES_SSL_MODE |-> Undefined,
   DATABASE_URL |-> Undefined]

Empty == Str(<<>>)
PlainHost == Str(<<"db", ".internal">>)
AliasHost == Str(<<"pg", ".internal">>)
RdsHost == Str(<<"mydb", ".rds.amazonaws.com">>)
\* the suffix in upper case, and the suffix in the middle of the name
UpperRdsHost == Str(<<"mydb", ".RDS.AMAZONAWS.COM">>)
InnerRdsHost == Str(<<"mydb", ".rds.amazonaws.com", ".proxy.internal">>)

\* postgresql://u:p@h:1234/dbname?sslmode=require
UrlPlain ==
  Str(<<"postgresql", "://", "u", ":", "p", "@", "h", ":", "1", "2", "3", "4",
        "/", "dbname", "?", "sslmode", "=", "require">>)
\* postgresql://u:p@mydb.rds.amazonaws.com/dbname
UrlRds ==
  Str(<<"postgresql", "://", "u", ":", "p", "@", "mydb", ".rds.amazonaws.com",
        "/", "dbname">>)
\* postgresql://u:p@mydb.rds.amazonaws.com/dbname?sslmode=disable
UrlRdsDisable ==
  Str(<<"postgresql", "://", "u", ":", "p", "@", "mydb", ".rds.amazonaws.com",
        "/", "dbname", "?", "sslmode", "=", "disable">>)
\* postgresql://u:p@mydb.RDS.AMAZONAWS.COM/dbname
UrlUpperRds ==
  Str(<<"postgresql", "://", "u", ":", "p", "@", "mydb", ".RDS.AMAZONAWS.COM",
        "/", "dbname">>)
\* a value that is no URL
UrlMalformed == Str(<<"not a url">>)

\* config.json: absent, not JSON, or the value JSON.parse gives
NoConfigFile == [exists |-> FALSE, parse |-> "none", value |-> Undefined]
BadConfigFile == [exists |-> TRUE, parse |-> "error", value |-> Undefined]
ConfigFile(db) == [exists |-> TRUE, parse |-> "ok", value |-> [t |-> "object", db |-> db]]

CfgDb(host, sslmode) ==
  DbObject(host, Num(5444), Str(<<"cfguser">>), Str(<<"cfgpw">>), Str(<<"cfgdb">>),
           sslmode, Undefined)


\* the environments of the process-level specification: each source with
\* and without an explicit SSL mode, with and without a managed-database host
ProcessInputs ==
  {[env |-> e, configFile |-> NoConfigFile] :
     e \in {NoEnv,
            [NoEnv EXCEPT !.DB_HOST = RdsHost, !.DB_USER = Str(<<"alice">>)],
            [NoEnv EXCEPT !.DB_HOST = RdsHost, !.DB_SSL_MODE = Str(<<"require">>)],
            [NoEnv EXCEPT !.DB_HOST = PlainHost],
            [NoEnv EXCEPT !.POSTGRES_HOST = UpperRdsHost],
            [NoEnv EXCEPT !.DATABASE_URL = UrlRds],
            [NoEnv EXCEPT !.DATABASE_URL = UrlRdsDisable],
            [NoEnv EXCEPT !.DATABASE_URL = UrlUpperRds],
            [NoEnv EXCEPT !.DATABASE_URL = UrlMalformed]}}
  \cup
  {[env |-> e, configFile |-> ConfigFile(CfgDb(RdsHost, m))] :
     e \in {NoEnv, [NoEnv EXCEPT !.DB_SSL_MODE = Str(<<"disable">>)]},
     m \in {Undefined, Str(<<"require">>)}}

\* the environments of the resolver specification: every combination of
\* the host and user variables, the other fields' variables (set together),
\* the SSL-mode variables, DATABASE_URL and config.json
OtherVars == {"none", "primary", "alias", "both"}

ResolverEnv(h1, h2, u1, u2, o, m1, m2, url) ==
  [DB_HOST |-> h1, POSTGRES_HOST |-> h2,
   DB_USER |-> u1, POSTGRES_USER |-> u2,
   DB_PORT |-> IF o \in {"primary", "both"} THEN Str(<<"6", "5", "4", "3">>) ELSE Undefined,
   POSTGRES_PORT |-> IF o \in {"alias", "both"} THEN Str(<<"5", "4", "3", "3">>) ELSE Undefined,
   DB_PASSWORD |-> IF o \in {"primary", "both"} THEN Str(<<"s3cret">>) ELSE Undefined,
   POSTGRES_PASSWORD |-> IF o \in {"alias", "both"} THEN Str(<<"pgpw">>) ELSE Undefined,
   DB_NAME |-> IF o \in {"primary", "both"} THEN Str(<<"appdb">>) ELSE Undefined,
   POSTGRES_DB |-> IF o \in {"alias", "both"} THEN Str(<<"pgdb">>) ELSE Undefined,
   DB_SSL_MODE |-> m1, POSTGRES_SSL_MODE |-> m2,
   DATABASE_URL |-> url]

\* config.json in the resolver specification
ResolverConfigFiles ==
  {NoConfigFile, BadConfigFile,
   ConfigFile(CfgDb(PlainHost, Str(<<"require">>))),
   ConfigFile(CfgDb(RdsHost, Undefined))}

\* the bundle the server sends, in the chunks it arrives in: the real
\* bundle (several certificates), a page that is no bundle, and nothing
GoodBody == <<(<<BeginMarker, EndMarker>>), (<<BeginMarker, EndMarker>>)>>
JunkBody == <<(<<"<html>">>)>>
Bodies == {GoodBody, JunkBody, <<>>}

\* ------------------------------------------------------------ bounds

\* resolutions per process
MaxCalls == 3
\* the oldest cache file looked at, in days
MaxAge == 31

Calls == 1..MaxCalls

\* ------------------------------------------------------------ the state

VARIABLES
  env,               \* process.env
  configFile,        \* config.json in the working directory
  certificateCache,  \* the memoized path, or null
  dirExists,         \* CERT_CACHE_DIR exists
  file,              \* the file at CERT_FILE_PATH
  unlinkPending,     \* an fs.unlink(CERT_FILE_PATH) is queued
  downloads,         \* the https.get calls issued so far
  nulls,             \* the ensureRdsCertificate calls that returned null so far
  calls,             \* the resolutions: each call of loadConfig
  app,               \* initializeApp: where it is, its retries, attempts, waits
  tool,              \* the last tool call and its result
  leftover           \* the file at CERT_FILE_PATH was opened by a download
                     \* that has not finished

vars == <<env, configFile, certificateCache, dirExists, file, unlinkPending,
          downloads, nulls, calls, app, tool, leftover>>

\* what ensureRdsCertificate saw when it was entered
Seen(memo, dir, f) == [memo |-> memo, dir |-> dir, file |-> f]

\* A resolution.
\*   pc        "idle", "requesting" (awaiting the response), "piping" (the
\*             body is streamed into the file), "hung" (the await never
\*             ends), "returned", "threw"
\*   source    the source taken (0: none yet);  db: config.db
\*   fault     the failures injected into this resolution
\*   ensured   ensureRdsCertificate was called;  seen: what it saw
\*   certPath  what ensureRdsCertificate returned (undefined: nothing yet)
\*   dl        the download: "none", "pending", "ok", "non200",
\*             "requesterror", "fileerror"
\*   body, sent  the response's chunks and how many have been written
\*   linked    the write stream's file is the one at CERT_FILE_PATH
\*   overlaps  the resolutions that awaited their download when this one
\*             entered ensureRdsCertificate
IdleCall ==
  [pc |-> "idle", source |-> 0, db |-> Undefined, fault |-> NoFault,
   ensured |-> FALSE, seen |-> Seen(Null, FALSE, NoFile), certPath |-> Undefined,
   dl |-> "none", body |-> <<>>, sent |-> 0, linked |-> FALSE, overlaps |-> {}]

\* The cache files a process can find when it starts: a well-formed
\* bundle just inside, at and beyond the validity window, and damaged
\* bundles inside it.
InitFiles ==
  {File(TRUE, a, <<BeginMarker, EndMarker>>) :
     a \in {x \in {ValidityDays - 1, ValidityDays, ValidityDays + 1} : x <= MaxAge}}
  \cup
  {File(TRUE, ValidityDays - 1, c) : c \in {<<BeginMarker>>, <<EndMarker>>, <<>>}}

\* let retries = 3
InitialRetries == 3

\* initializeApp before its first statement
AppStart == [pc |-> "loading", retries |-> InitialRetries, attempts |-> 0, waits |-> 0]

\* no tool has been called
NoTool == [name |-> "none"]

InitCommon ==
  /\ app = AppStart
  /\ tool = NoTool
  /\ certificateCache = Null
  /\ unlinkPending = FALSE
  /\ downloads = 0
  /\ nulls = 0
  /\ leftover = FALSE
  /\ calls = [c \in Calls |-> IdleCall]

Init ==
  /\ InitCommon
  /\ \E i \in ProcessInputs : env = i.env /\ configFile = i.configFile
  /\ \/ dirExists = FALSE /\ file = NoFile
     \/ dirExists = TRUE /\ file \in InitFiles \cup {NoFile}


\* ------------------------------------------------------------ the actions

\* the resolution c ends: loadConfig returns config with config.db = db
Returned(call, db, certPath, dl) ==
  [call EXCEPT !.pc = "returned", !.db = db, !.certPath = certPath, !.dl = dl,
               !.body = <<>>, !.sent = 0, !.linked = FALSE]

\* the frame of a resolution that has ended, once the next one starts
Ended(call) == [IdleCall EXCEPT !.pc = call.pc]

\* the resolutions that await their download
Awaiting == {d \in Calls : calls[d].pc \in {"requesting", "piping", "hung"}}

\* loadConfig() is called and runs to its return, its throw, or the await
\* of the download inside ensureRdsCertificate.
Resolve(c) ==
  /\ calls[c].pc = "idle"
  /\ \A d \in Calls : d < c => calls[d].pc # "idle"
  /\ LET o == loadConfigSync(env, configFile)
         before == [d \in Calls |->
                      IF d < c /\ calls[d].pc \in {"returned", "threw"}
                        THEN Ended(calls[d]) ELSE calls[d]]
         started == [calls[c] EXCEPT !.source = o.source, !.db = o.db]
     IN IF o.threw
          THEN /\ calls' = [before EXCEPT ![c] = [started EXCEPT !.pc = "threw"]]
               /\ UNCHANGED <<certificateCache, dirExists, file, downloads, nulls, leftover>>
        ELSE IF ~o.needCert
          THEN /\ calls' = [before EXCEPT ![c] = [started EXCEPT !.pc = "returned"]]
               /\ UNCHANGED <<certificateCache, dirExists, file, downloads, nulls, leftover>>
        ELSE
          \E fault \in Faults(certificateCache, dirExists, file) :
            LET r == ensureSync(certificateCache, dirExists, file, fault)
                entered == [started EXCEPT
                              !.fault = fault, !.ensured = TRUE,
                              !.seen = Seen(certificateCache, dirExists, file),
                              !.overlaps = Awaiting]
            IN /\ dirExists' = DirAfterEnsure(certificateCache, dirExists, fault)
               /\ CASE r = "memo" ->
                         /\ calls' = [before EXCEPT ![c] =
                              Returned(entered,
                                [o.db EXCEPT !.ssl = SslAfterEnsure(certificateCache, file, fault)],
                                certificateCache, "none")]
                         /\ UNCHANGED <<certificateCache, file, downloads, nulls, leftover>>
                    [] r = "cached" ->
                         /\ certificateCache' = CERT_FILE_PATH
                         /\ calls' = [before EXCEPT ![c] =
                              Returned(entered,
                                [o.db EXCEPT !.ssl = SslAfterEnsure(CERT_FILE_PATH, file, fault)],
                                CERT_FILE_PATH, "none")]
                         /\ UNCHANGED <<file, downloads, nulls, leftover>>
                    [] r = "null" ->
                         /\ calls' = [before EXCEPT ![c] =
                              Returned(entered,
                                [o.db EXCEPT !.ssl = SslAfterEnsure(Null, file, fault)],
                                Null, "none")]
                         /\ nulls' = nulls + 1
                         /\ UNCHANGED <<certificateCache, file, downloads, leftover>>
                    [] r = "download" ->
                         /\ file' = OpenForWrite(file, fault)
                         /\ leftover' = IF fault.open THEN leftover ELSE TRUE
                         /\ downloads' = downloads + 1
                         /\ calls' = [before EXCEPT ![c] =
                              [entered EXCEPT !.pc = "requesting", !.dl = "pending",
                                              !.linked = ~fault.open]]
                         /\ UNCHANGED <<certificateCache, nulls>>
  /\ UNCHANGED <<app, tool, env, configFile, unlinkPending>>

\* Resolutions are sequential in the process: one starts when the one
\* before has ended.
LoadConfig(c) ==
  /\ \A d \in Calls : d < c => calls[d].pc \in {"returned", "threw"}
  /\ Resolve(c)

\* the download's promise is rejected: ensureRdsCertificate catches, returns
\* null, and loadConfig returns with the fallback
Rejected(c, dl) ==
  /\ nulls' = nulls + 1
  /\ calls' = [calls EXCEPT ![c] =
                 Returned(calls[c],
                          [calls[c].db EXCEPT !.ssl = SslAfterEnsure(Null, file, calls[c].fault)],
                          Null, dl)]

\* a response with a status other than 200: reject, nothing else
ResponseNon200(c) ==
  /\ calls[c].pc = "requesting"
  /\ ~calls[c].fault.open
  /\ Rejected(c, "non200")
  /\ UNCHANGED <<leftover, app, tool, env, configFile, certificateCache, dirExists, file, unlinkPending,
                 downloads>>

\* a 200 response: response.pipe(file)
Response200(c) ==
  /\ calls[c].pc = "requesting"
  /\ ~calls[c].fault.open
  /\ \E body \in Bodies :
       calls' = [calls EXCEPT ![c] = [@ EXCEPT !.pc = "piping", !.body = body, !.sent = 0]]
  /\ UNCHANGED <<leftover, app, tool, env, configFile, certificateCache, dirExists, file, unlinkPending,
                 downloads, nulls>>

\* request.on('error'): before the response (DNS, connect, TLS) or, as a
\* socket error, while the body arrives: fs.unlink is queued, then reject
RequestError(c) ==
  /\ calls[c].pc \in {"requesting", "piping"}
  /\ unlinkPending' = TRUE
  /\ Rejected(c, "requesterror")
  /\ UNCHANGED <<leftover, app, tool, env, configFile, certificateCache, dirExists, file, downloads>>

\* file.on('error'): the open failed, or a write failed: fs.unlink is
\* queued, then reject
FileError(c) ==
  /\ \/ calls[c].pc = "requesting" /\ calls[c].fault.open
     \/ calls[c].pc = "piping"
  /\ unlinkPending' = TRUE
  /\ Rejected(c, "fileerror")
  /\ UNCHANGED <<leftover, app, tool, env, configFile, certificateCache, dirExists, file, downloads>>

\* the pipe writes the next chunk of the body
WriteChunk(c) ==
  /\ calls[c].pc = "piping"
  /\ calls[c].sent < Len(calls[c].body)
  /\ calls' = [calls EXCEPT ![c].sent = @ + 1]
  /\ file' = IF calls[c].linked
               THEN File(TRUE, 0,
                         WriteAt(file.content, Offset(calls[c].body, calls[c].sent),
                                 calls[c].body[calls[c].sent + 1]))
             ELSE file
  /\ UNCHANGED <<leftover, app, tool, env, configFile, certificateCache, dirExists, unlinkPending, downloads, nulls>>

\* the response ended and the file is flushed: file.on('finish') resolves,
\* ensureRdsCertificate memoizes and returns the path, loadConfig goes on
Finish(c) ==
  /\ calls[c].pc = "piping"
  /\ calls[c].sent = Len(calls[c].body)
  /\ certificateCache' = CERT_FILE_PATH
  /\ calls' = [calls EXCEPT ![c] =
                 Returned(calls[c],
                          [calls[c].db EXCEPT
                             !.ssl = SslAfterEnsure(CERT_FILE_PATH, file, calls[c].fault)],
                          CERT_FILE_PATH, "ok")]
  /\ leftover' = IF calls[c].linked THEN FALSE ELSE leftover
  /\ UNCHANGED <<app, tool, env, configFile, dirExists, file, unlinkPending, downloads, nulls>>

\* the connection is closed or stalls before the body is complete: the
\* response never ends, the file never finishes, the promise never settles
PrematureClose(c) ==
  /\ calls[c].pc = "piping"
  /\ calls' = [calls EXCEPT ![c].pc = "hung"]
  /\ UNCHANGED <<leftover, app, tool, env, configFile, certificateCache, dirExists, file, unlinkPending,
                 downloads, nulls>>

\* a queued fs.unlink runs: the name is removed; a stream that has the
\* file open goes on writing to a file no path leads to
UnlinkComplete ==
  /\ unlinkPending
  /\ unlinkPending' = FALSE
  /\ file' = NoFile
  /\ calls' = [c \in Calls |-> [calls[c] EXCEPT !.linked = FALSE]]
  /\ leftover' = FALSE
  /\ UNCHANGED <<app, tool, env, configFile, certificateCache, dirExists, downloads, nulls>>

\* time passes between resolutions: the validity window goes by
Tick ==
  /\ file.exists
  /\ \A c \in Calls : calls[c].pc \notin {"requesting", "piping"}
  /\ file.age + ValidityDays <= MaxAge
  /\ file' = [file EXCEPT !.age = @ + ValidityDays]
  /\ UNCHANGED <<leftover, app, tool, env, configFile, certificateCache, dirExists, unlinkPending,
                 downloads, nulls, calls>>

Next ==
  \/ \E c \in Calls : LoadConfig(c)
  \/ \E c \in Calls : ResponseNon200(c)
  \/ \E c \in Calls : Response200(c)
  \/ \E c \in Calls : RequestError(c)
  \/ \E c \in Calls : FileError(c)
  \/ \E c \in Calls : WriteChunk(c)
  \/ \E c \in Calls : Finish(c)
  \/ \E c \in Calls : PrematureClose(c)
  \/ UnlinkComplete
  \/ Tick

Spec == Init /\ [][Next]_vars

\* The resolver alone: every combination of the configuration sources, and
\* loadConfig applied to it.
ResolverInit ==
  /\ InitCommon
  /\ \E h1 \in {Undefined, Empty, PlainHost, RdsHost},
        h2 \in {Undefined, AliasHost},
        u1 \in {Undefined, Empty, Str(<<"alice">>)},
        u2 \in {Undefined, Str(<<"bob">>)},
        o \in OtherVars,
        m1 \in {Undefined, Str(<<"require">>)},
        m2 \in {Undefined, Str(<<"disable">>)},
        url \in {Undefined, Empty, UrlMalformed, UrlPlain, UrlRds} :
       env = ResolverEnv(h1, h2, u1, u2, o, m1, m2, url)
  /\ configFile \in ResolverConfigFiles
  /\ dirExists = TRUE
  /\ file \in {NoFile, File(TRUE, 0, <<BeginMarker, EndMarker>>)}

ResolverNext == \E c \in Calls : LoadConfig(c)

ResolverSpec == ResolverInit /\ [][ResolverNext]_vars


\* The resolver field by field: for each field the primary and the alias
\* variable unset, empty or set (the port also zero, not a number, and
\* beyond 65535), each SSL-mode value from each place it can be given,
\* and the shapes of DATABASE_URL.
FieldShapes == {"none", "primary", "alias", "both", "emptyPrimary"}

Primary(o, v) ==
  IF o \in {"primary", "both"} THEN v ELSE IF o = "emptyPrimary" THEN Empty ELSE Undefined
Alias(o, v) == IF o \in {"alias", "both", "emptyPrimary"} THEN v ELSE Undefined

FieldEnv(h1, h2, p1, p2, o, m1, m2, url) ==
  [DB_HOST |-> h1, POSTGRES_HOST |-> h2,
   DB_PORT |-> p1, POSTGRES_PORT |-> p2,
   DB_USER |-> Primary(o, Str(<<"alice">>)), POSTGRES_USER |-> Alias(o, Str(<<"bob">>)),
   DB_PASSWORD |-> Primary(o, Str(<<"s3cret">>)), POSTGRES_PASSWORD |-> Alias(o, Str(<<"pgpw">>)),
   DB_NAME |-> Primary(o, Str(<<"appdb">>)), POSTGRES_DB |-> Alias(o, Str(<<"pgdb">>)),
   DB_SSL_MODE |-> m1, POSTGRES_SSL_MODE |-> m2,
   DATABASE_URL |-> url]

FieldPorts ==
  {Undefined, Empty, Str(<<"0">>), Str(<<"a", "b", "c">>),
   Str(<<"6", "5", "4", "3">>), Str(<<"7", "0", "0", "0", "0">>)}

FieldModes ==
  {Undefined, Empty, Str(<<"require">>), Str(<<"disable">>), Str(<<"verify-full">>)}

\* postgresql://u:p@h/dbname
UrlNoPort ==
  Str(<<"postgresql", "://", "u", ":", "p", "@", "h", "/", "dbname">>)
\* postgresql://u:p@h:1234/dbname?sslmode=verify-full
UrlVerifyFull ==
  Str(<<"postgresql", "://", "u", ":", "p", "@", "h", ":", "1", "2", "3", "4",
        "/", "dbname", "?", "sslmode", "=", "verify-full">>)
\* postgresql://u:p@h:1234/dbname?sslmode=disable
UrlDisable ==
  Str(<<"postgresql", "://", "u", ":", "p", "@", "h", ":", "1", "2", "3", "4",
        "/", "dbname", "?", "sslmode", "=", "disable">>)
\* postgresql://u:p@h:70000/dbname
UrlBigPort ==
  Str(<<"postgresql", "://", "u", ":", "p", "@", "h", ":", "7", "0", "0", "0", "0",
        "/", "dbname">>)

FieldUrls == {UrlPlain, UrlNoPort, UrlVerifyFull, UrlDisable, UrlBigPort}

FieldConfigFiles ==
  {ConfigFile(CfgDb(PlainHost, m)) :
     m \in {Undefined, Str(<<"require">>), Str(<<"disable">>), Str(<<"verify-full">>),
            Bool(TRUE)}}

FieldInit ==
  /\ InitCommon
  /\ dirExists = TRUE
  /\ file = NoFile
  /\ \E m1 \in FieldModes, m2 \in {Undefined, Str(<<"disable">>)} :
       \/ /\ \E h1 \in {Undefined, Empty, PlainHost}, h2 \in {Undefined, AliasHost},
                p1 \in FieldPorts, p2 \in {Undefined, Str(<<"5", "4", "3", "3">>)},
                o \in FieldShapes :
               env = FieldEnv(h1, h2, p1, p2, o, m1, m2, Undefined)
          /\ configFile = NoConfigFile
       \/ /\ \E url \in FieldUrls :
               env = [NoEnv EXCEPT !.DB_SSL_MODE = m1, !.POSTGRES_SSL_MODE = m2,
                                   !.DATABASE_URL = url]
          /\ configFile = NoConfigFile
       \/ /\ env = [NoEnv EXCEPT !.DB_SSL_MODE = m1, !.POSTGRES_SSL_MODE = m2]
          /\ configFile \in FieldConfigFiles

FieldSpec == FieldInit /\ [][ResolverNext]_vars



\* ------------------------------------------------------------ initializeApp

\* AfterConnectFailure giving up when one retry is still left
AfterConnectFailureEarly(a) ==
  [a EXCEPT !.attempts = @ + 1,
            !.retries = @ - 1,
            !.pc = IF a.retries - 1 <= 1 THEN "fatal" ELSE "waiting"]

\* AfterConnectFailure going on to serve when no retry is left
AfterConnectFailureServes(a) ==
  [a EXCEPT !.attempts = @ + 1,
            !.retries = @ - 1,
            !.pc = IF a.retries - 1 = 0 THEN "serving" ELSE "waiting"]

\* db.connect() failed: retries--, the fatal error when none is left, the
\* wait before the next attempt otherwise
AfterConnectFailure(a) ==
  [a EXCEPT !.attempts = @ + 1,
            !.retries = @ - 1,
            !.pc = IF a.retries - 1 = 0 THEN "fatal" ELSE "waiting"]

\* db.connect() succeeded: break, return db
AfterConnectSuccess(a) == [a EXCEPT !.attempts = @ + 1, !.pc = "serving"]

\* await loadConfig() has returned: the retry loop is entered
ConfigLoaded ==
  /\ app.pc = "loading"
  /\ calls[1].pc = "returned"
  /\ app' = [app EXCEPT !.pc = "connecting"]
  /\ UNCHANGED <<leftover, tool, env, configFile, certificateCache, dirExists, file, unlinkPending,
                 downloads, nulls, calls>>

\* await loadConfig() has thrown: initializeApp rejects, the module's
\* top-level await ends the process
ConfigFailed ==
  /\ app.pc = "loading"
  /\ calls[1].pc = "threw"
  /\ app' = [app EXCEPT !.pc = "aborted"]
  /\ UNCHANGED <<leftover, tool, env, configFile, certificateCache, dirExists, file, unlinkPending,
                 downloads, nulls, calls>>

ConnectOk ==
  /\ app.pc = "connecting"
  /\ app' = AfterConnectSuccess(app)
  /\ UNCHANGED <<leftover, tool, env, configFile, certificateCache, dirExists, file, unlinkPending,
                 downloads, nulls, calls>>

ConnectFail ==
  /\ app.pc = "connecting"
  /\ app' = AfterConnectFailure(app)
  /\ UNCHANGED <<leftover, tool, env, configFile, certificateCache, dirExists, file, unlinkPending,
                 downloads, nulls, calls>>

\* the 2 seconds before the next attempt have passed
RetryDelay ==
  /\ app.pc = "waiting"
  /\ app' = [app EXCEPT !.waits = @ + 1, !.pc = "connecting"]
  /\ UNCHANGED <<leftover, tool, env, configFile, certificateCache, dirExists, file, unlinkPending,
                 downloads, nulls, calls>>

\* ------------------------------------------------------------ the tools

\* expired: ageInDays >= 30
StatusValidityDays == 30

\* getCacheStatus with expired: ageInDays > 30
getCacheStatusLate(f) ==
  IF ~f.exists THEN [exists |-> FALSE]
  ELSE [exists |-> TRUE,
        ageInDays |-> f.age,
        daysRemaining |-> StatusValidityDays - f.age,
        expired |-> f.age > StatusValidityDays]

\* getCacheStatus()
getCacheStatus(f) ==
  IF ~f.exists THEN [exists |-> FALSE]
  ELSE [exists |-> TRUE,
        ageInDays |-> f.age,
        daysRemaining |-> StatusValidityDays - f.age,
        expired |-> f.age >= StatusValidityDays]

\* case "check_certificate_cache"
CheckCertificateCache ==
  /\ app.pc = "serving"
  /\ tool' = [name |-> "check_certificate_cache", isError |-> FALSE,
              status |-> getCacheStatus(file)]
  /\ UNCHANGED <<leftover, app, env, configFile, certificateCache, dirExists, file, unlinkPending,
                 downloads, nulls, calls>>

\* query.trim(): the blanks at both ends removed
RECURSIVE TrimStart(_)
TrimStart(s) == IF s # <<>> /\ Head(s) = " " THEN TrimStart(Tail(s)) ELSE s
RECURSIVE TrimEnd(_)
TrimEnd(s) ==
  IF s # <<>> /\ s[Len(s)] = " " THEN TrimEnd(SubSeq(s, 1, Len(s) - 1)) ELSE s
Trim(s) == TrimEnd(TrimStart(s))

\* toLowerCase() of a word
LowerCaseWord(w) ==
  CASE w \in {"SELECT", "Select"} -> "select"
    [] w \in {"DELETE", "Delete"} -> "delete"
    [] w = "FROM" -> "from"
    [] OTHER -> w

toLowerCase(s) == [i \in 1..Len(s) |-> LowerCaseWord(s[i])]

\* s.startsWith("select"), the words being whole tokens
startsWithSelect(s) == s # <<>> /\ s[1] = "select"

\* case "execute_query": the result, and whether db.query(query) was called
executeQuery(query, dbOk) ==
  IF ~Truthy(query)
    THEN [name |-> "execute_query", query |-> query, isError |-> TRUE, sent |-> FALSE]
  ELSE IF query.t # "string"
    THEN [name |-> "execute_query", query |-> query, isError |-> TRUE, sent |-> FALSE]
  ELSE IF ~startsWithSelect(toLowerCase(Trim(query.s)))
    THEN [name |-> "execute_query", query |-> query, isError |-> TRUE, sent |-> FALSE]
  ELSE [name |-> "execute_query", query |-> query, isError |-> ~dbOk, sent |-> TRUE]

\* the queries a client sends: none, empty, not a string, SELECTs in
\* several spellings, a DELETE, and a SELECT followed by a DELETE
Queries ==
  {Undefined, Empty, Num(7),
   Str(<<"SELECT", "1">>),
   Str(<<" ", "Select", "*", "FROM", "t", " ">>),
   Str(<<"DELETE", "FROM", "t">>),
   Str(<<"select", "1", ";", "DELETE", "FROM", "t">>)}

ExecuteQuery ==
  /\ app.pc = "serving"
  /\ \E query \in Queries, dbOk \in BOOLEAN : tool' = executeQuery(query, dbOk)
  /\ UNCHANGED <<leftover, app, env, configFile, certificateCache, dirExists, file, unlinkPending,
                 downloads, nulls, calls>>

\* ------------------------------------------------------------ the process

\* config.json holding the JSON value null
NullConfigFile == [exists |-> TRUE, parse |-> "ok", value |-> Null]

\* the configurations the process is started with
AppInputs ==
  {[env |-> e, configFile |-> NoConfigFile] :
     e \in {NoEnv,
            [NoEnv EXCEPT !.DB_HOST = PlainHost],
            [NoEnv EXCEPT !.DB_HOST = RdsHost],
            [NoEnv EXCEPT !.DATABASE_URL = UrlMalformed]}}
  \cup
  {[env |-> NoEnv, configFile |-> f] :
     f \in {BadConfigFile, NullConfigFile,
            ConfigFile(CfgDb(PlainHost, Undefined)),
            ConfigFile(CfgDb(Num(10), Undefined)),
            ConfigFile(CfgDb(Num(10), Str(<<"require">>)))}}

AppInit ==
  /\ InitCommon
  /\ \E i \in AppInputs : env = i.env /\ configFile = i.configFile
  /\ \/ dirExists = FALSE /\ file = NoFile
     \/ dirExists = TRUE /\ file \in InitFiles \cup {NoFile}

\* The process: initializeApp calls loadConfig once, connects, and the
\* tools are served once it has returned.
AppNext ==
  \/ LoadConfig(1)
  \/ \E c \in Calls : ResponseNon200(c)
  \/ \E c \in Calls : Response200(c)
  \/ \E c \in Calls : RequestError(c)
  \/ \E c \in Calls : FileError(c)
  \/ \E c \in Calls : WriteChunk(c)
  \/ \E c \in Calls : Finish(c)
  \/ \E c \in Calls : PrematureClose(c)
  \/ UnlinkComplete
  \/ Tick
  \/ ConfigLoaded
  \/ ConfigFailed
  \/ ConnectOk
  \/ ConnectFail
  \/ RetryDelay
  \/ CheckCertificateCache
  \/ ExecuteQuery

AppSpec == AppInit /\ [][AppNext]_vars


\* ensureRdsCertificate as a function other code may call: nothing in it
\* keeps a second resolution from being started while an earlier one awaits
\* its download.  Here a resolution starts when all before it have ended,
\* or while the one just before it is the only one awaiting its download.
OverlapInit ==
  /\ InitCommon
  /\ env = [NoEnv EXCEPT !.DB_HOST = RdsHost]
  /\ configFile = NoConfigFile
  /\ \/ dirExists = FALSE /\ file = NoFile
     \/ dirExists = TRUE /\ file \in {NoFile, File(TRUE, ValidityDays, <<BeginMarker, EndMarker>>)}

OverlapNext ==
  \/ \E c \in Calls : Awaiting \subseteq {c - 1} /\ Resolve(c)
  \/ \E c \in Calls : ResponseNon200(c)
  \/ \E c \in Calls : Response200(c)
  \/ \E c \in Calls : RequestError(c)
  \/ \E c \in Calls : FileError(c)
  \/ \E c \in Calls : WriteChunk(c)
  \/ \E c \in Calls : Finish(c)
  \/ \E c \in Calls : PrematureClose(c)
  \/ UnlinkComplete
  \/ Tick

OverlapSpec == OverlapInit /\ [][OverlapNext]_vars

\* The events a pending download is sure to get: the request ends in a
\* response or an error, the pipe writes what has arrived, the stream
\* finishes once the response has ended.  That the rest of a body arrives is
\* up to the server and the network: PrematureClose is no such event.
Progress(c) ==
  \/ ResponseNon200(c)
  \/ Response200(c)
  \/ RequestError(c)
  \/ FileError(c)
  \/ WriteChunk(c)
  \/ Finish(c)

FairSpec == Spec /\ \A c \in Calls : WF_vars(Progress(c))

\* The process ends (killed, or exited) and a new one is started with the
\* same environment: the module state is as at load, the disk is as the
\* old process left it.  An fs.unlink still queued has run or is lost.
Restart ==
  /\ calls[1].pc # "idle"
  /\ certificateCache' = Null
  /\ calls' = [c \in Calls |-> IdleCall]
  /\ app' = AppStart
  /\ tool' = NoTool
  /\ downloads' = 0
  /\ nulls' = 0
  /\ unlinkPending' = FALSE
  /\ \/ unlinkPending /\ file' = NoFile /\ leftover' = FALSE
     \/ UNCHANGED <<file, leftover>>
  /\ UNCHANGED <<env, configFile, dirExists>>

LifeNext ==
  \/ \E c \in Calls : LoadConfig(c)
  \/ \E c \in Calls : ResponseNon200(c)
  \/ \E c \in Calls : Response200(c)
  \/ \E c \in Calls : RequestError(c)
  \/ \E c \in Calls : FileError(c)
  \/ \E c \in Calls : WriteChunk(c)
  \/ \E c \in Calls : Finish(c)
  \/ \E c \in Calls : PrematureClose(c)
  \/ UnlinkComplete
  \/ Tick
  \/ Restart

\* one process after another over the same cache directory
LifeSpec == Init /\ [][LifeNext]_vars


\* ------------------------------------------------------------ the claims

\* a variable that is set to a value (the empty string counts as no value)
IsSet(v) == v.t = "string" /\ v.s # <<>>

\* the resolutions whose frame is live: started, and not yet forgotten
Started == {c \in Calls : calls[c].source # 0}
\* the resolutions that built a descriptor
Built == {c \in Started : calls[c].pc # "threw"}

\* the highest-precedence source that is satisfied
HighestSatisfied ==
  IF \/ IsSet(env.DB_HOST) \/ IsSet(env.POSTGRES_HOST)
     \/ IsSet(env.DB_USER) \/ IsSet(env.POSTGRES_USER) THEN 1
  ELSE IF IsSet(env.DATABASE_URL) THEN 2
  ELSE IF configFile.exists THEN 3
  ELSE 4

\* the inputs with the sources of lower precedence than source k removed
EnvWithoutLower(k) == IF k = 1 THEN [env EXCEPT !.DATABASE_URL = Undefined] ELSE env
ConfigWithoutLower(k) == IF k <= 2 THEN NoConfigFile ELSE configFile

SameFields(a, b) ==
  /\ a.host = b.host /\ a.port = b.port /\ a.user = b.user
  /\ a.password = b.password /\ a.database = b.database

\* C1: loadConfig takes the highest-precedence satisfied source (1: a host
\* or user variable has a value, 2: DATABASE_URL, 3: config.json exists,
\* 4: the defaults), and what it does - the descriptor, whether it goes on
\* to the trust bundle, whether it fails - is what it does with every
\* lower-precedence source removed; it fails only on a malformed selected
\* source 2 or 3, and source 4 gives localhost, 5432, postgres, postgres,
\* postgres with TLS disabled.
C1_SourcePrecedence ==
  \A c \in Started :
    LET k == HighestSatisfied
        o == loadConfigSync(EnvWithoutLower(k), ConfigWithoutLower(k))
    IN /\ calls[c].source = k
       /\ (calls[c].pc = "threw") = o.threw
       /\ calls[c].pc = "threw" => k \in {2, 3}
       /\ calls[c].pc # "threw" =>
            /\ SameFields(calls[c].db, o.db)
            /\ calls[c].ensured = o.needCert
            /\ ~o.needCert => calls[c].db.ssl = o.db.ssl
       /\ k = 4 =>
            /\ calls[c].pc = "returned"
            /\ calls[c].db.host = Str(<<"localhost">>)
            /\ calls[c].db.port = Num(5432)
            /\ calls[c].db.user = Str(<<"postgres">>)
            /\ calls[c].db.password = Str(<<"postgres">>)
            /\ calls[c].db.database = Str(<<"postgres">>)
            /\ calls[c].db.ssl = Bool(FALSE)

\* C1's case: source 1 resolves with a malformed DATABASE_URL and a
\* malformed config.json in place
C1_Witness ==
  \E c \in Started :
    /\ calls[c].pc = "returned"
    /\ calls[c].source = 1
    /\ env.DATABASE_URL = UrlMalformed
    /\ configFile = BadConfigFile

\* the values the per-field variables give to each field
EnvValues(a, b) == {v \in {a, b} : IsSet(v)}
EnvPorts == {parseInt(v) : v \in EnvValues(env.DB_PORT, env.POSTGRES_PORT)}

\* C2 as stated: resolving with only source 1's inputs present (no
\* DATABASE_URL, no config.json) gives no field the value the
\* lower-precedence default source has for it, also when only a user
\* variable or only a host variable is set.
C2_Original ==
  \A c \in Built :
    (calls[c].source = 1 /\ ~IsSet(env.DATABASE_URL) /\ ~configFile.exists) =>
      /\ calls[c].db.host # DefaultConfig.db.host
      /\ calls[c].db.user # DefaultConfig.db.user
      /\ calls[c].db.database # DefaultConfig.db.database
      /\ calls[c].db.password # DefaultConfig.db.password

\* a field of source 1: the value of one of its two variables, or, when
\* neither has a value, the literal of source 1's own branch
OwnOrLiteral(field, a, b, literal) ==
  IF EnvValues(a, b) = {} THEN field = literal ELSE field \in EnvValues(a, b)

\* C2, amended: no field of the descriptor comes from the inputs of a
\* source other than the selected one.  Source 1 gives each field the
\* value of one of the field's two variables and, when neither has a
\* value, the literal of its own branch (localhost, 5432, postgres, the
\* empty password, postgres); source 2 gives the parts of the URL, and
\* 5432 for a URL without a port; source 3 gives the fields of config.db;
\* source 4 gives the defaults.
C2_NoInterleaving ==
  \A c \in Built :
    LET db == calls[c].db
    IN /\ calls[c].source = 1 =>
            /\ OwnOrLiteral(db.host, env.DB_HOST, env.POSTGRES_HOST, Str(<<"localhost">>))
            /\ OwnOrLiteral(db.user, env.DB_USER, env.POSTGRES_USER, Str(<<"postgres">>))
            /\ OwnOrLiteral(db.password, env.DB_PASSWORD, env.POSTGRES_PASSWORD, Empty)
            /\ OwnOrLiteral(db.database, env.DB_NAME, env.POSTGRES_DB, Str(<<"postgres">>))
            /\ IF EnvPorts = {} THEN db.port = Num(5432) ELSE db.port \in EnvPorts
       /\ calls[c].source = 2 =>
            LET url == URL(env.DATABASE_URL)
            IN /\ db.host = url.hostname
               /\ db.user = url.username
               /\ db.password = url.password
               /\ db.database = Slice1(url.pathname)
               /\ db.port = IF url.port = Empty THEN Num(5432) ELSE parseInt(url.port)
       /\ calls[c].source = 3 => SameFields(db, configFile.value.db)
       /\ calls[c].source = 4 => SameFields(db, DefaultConfig.db)

\* C2's case: source 1 is triggered by a user variable alone while
\* DATABASE_URL and config.json are present, and has returned
C2_Witness ==
  \E c \in Built :
    /\ calls[c].pc = "returned"
    /\ calls[c].source = 1
    /\ ~IsSet(env.DB_HOST) /\ ~IsSet(env.POSTGRES_HOST)
    /\ env.DATABASE_URL = UrlPlain
    /\ configFile.exists /\ configFile.parse = "ok"
    /\ calls[c].db.host = Str(<<"localhost">>)


\* the TLS modes of a descriptor
Opportunistic == [t |-> "object", rejectUnauthorized |-> FALSE]
VerifyFull(content) == [t |-> "object", rejectUnauthorized |-> TRUE, ca |-> Str(content)]
IsVerifyFull(ssl) == ssl.t = "object" /\ ssl.rejectUnauthorized

\* the resolved host contains the managed-database suffix
HostMatches(db) ==
  db.t = "object" /\ db.host.t = "string" /\ Includes(db.host.s, ".rds.amazonaws.com")

\* an explicit SSL mode is given to source k: by DB_SSL_MODE or
\* POSTGRES_SSL_MODE, by the sslmode parameter of the URL (source 2), by
\* the sslmode key of config.db (source 3)
ExplicitSslMode(k) ==
  \/ IsSet(env.DB_SSL_MODE)
  \/ IsSet(env.POSTGRES_SSL_MODE)
  \/ k = 2 /\ IsSet(URL(env.DATABASE_URL).sslmode)
  \/ k = 3 /\ IsSet(configFile.value.db.sslmode)

\* the outcomes of a download that failed
DownloadFailures == {"non200", "requesterror", "fileerror"}

\* C3: a resolution of source 1, 2 or 3 whose host matches the
\* managed-database pattern and that is given no explicit SSL mode calls
\* ensureRdsCertificate; a resolution that called it never fails; it
\* returns Opportunistic whenever the acquisition failed (null from the
\* cache, or a bundle that cannot be read) and VerifyFull with the
\* contents of the cache file whenever it got the path of a readable file,
\* and VerifyFull in no other case.
C3_DegradeNotFail ==
  \A c \in Started :
    /\ calls[c].ensured => calls[c].pc # "threw"
    /\ (/\ calls[c].pc # "threw"
        /\ calls[c].source \in 1..3
        /\ ~ExplicitSslMode(calls[c].source)
        /\ HostMatches(calls[c].db)) => calls[c].ensured
    /\ (calls[c].ensured /\ calls[c].pc = "returned") =>
         /\ calls[c].db.ssl \in {Opportunistic} \cup {VerifyFull(file.content)}
              \/ ~file.exists
         /\ calls[c].certPath = Null => calls[c].db.ssl = Opportunistic
         /\ calls[c].dl \in DownloadFailures => calls[c].db.ssl = Opportunistic
         /\ calls[c].fault.read => calls[c].db.ssl = Opportunistic
         /\ (Truthy(calls[c].certPath) /\ file.exists /\ ~calls[c].fault.read) =>
              calls[c].db.ssl = VerifyFull(file.content)
         /\ calls[c].db.ssl # Opportunistic =>
              /\ IsVerifyFull(calls[c].db.ssl)
              /\ Truthy(calls[c].certPath)

\* C3's case: the host matches, the download failed, and loadConfig has
\* returned with Opportunistic
C3_Witness ==
  \E c \in Started :
    /\ calls[c].pc = "returned"
    /\ HostMatches(calls[c].db)
    /\ calls[c].dl = "requesterror"
    /\ calls[c].db.ssl = Opportunistic

\* ensureRdsCertificate of resolution c ran a step that failed: the
\* directory creation, the stat, or the download
StepFailed(c) ==
  /\ ~Truthy(calls[c].seen.memo)
  /\ \/ ~calls[c].seen.dir /\ calls[c].fault.mkdir
     \/ calls[c].seen.file.exists /\ calls[c].fault.stat
     \/ calls[c].dl \in DownloadFailures

\* C4: ensureRdsCertificate never raises: when it has returned, it has
\* returned the cache file path or null, and null exactly when the
\* directory creation, the stat or the download failed.
C4_NullIffStepFailed ==
  \A c \in Started :
    calls[c].ensured =>
      /\ calls[c].pc # "threw"
      /\ calls[c].certPath \in {Undefined, Null, CERT_FILE_PATH}
      /\ calls[c].pc = "returned" => calls[c].certPath # Undefined
      /\ calls[c].certPath # Undefined => ((calls[c].certPath = Null) <=> StepFailed(c))

\* C4's case: the download ended in a non-200 response and null came back
C4_Witness ==
  \E c \in Started :
    /\ calls[c].ensured
    /\ calls[c].dl = "non200"
    /\ calls[c].certPath = Null

\* C5 as stated: sequential resolutions issue at most one download,
\* whatever the outcome of the first
C5_Original == downloads <= 1

\* C5, amended: the downloads issued are at most one more than the
\* acquisitions that returned null: none after an acquisition returned a
\* path, one more after each failed acquisition.
C5_OneDownloadPerFailure == downloads <= nulls + 1

\* C5's case: a second download, after a first acquisition that failed
C5_Witness == downloads = 2 /\ nulls >= 1

\* ensureRdsCertificate of resolution c, entered with no memoized path,
\* found the cache file and its stat
Decides(c) ==
  /\ calls[c].ensured
  /\ ~Truthy(calls[c].seen.memo)
  /\ calls[c].seen.file.exists
  /\ ~calls[c].fault.stat

\* C6: with no memoized path, a cache file of age >= 30 days is downloaded
\* again even with both markers; a readable one of age < 30 days with both
\* markers is returned without a download.
C6_AgeDecides ==
  \A c \in Started :
    Decides(c) =>
      /\ calls[c].seen.file.age >= 30 => calls[c].dl # "none"
      /\ (/\ calls[c].seen.file.age < 30
          /\ Includes(calls[c].seen.file.content, BeginMarker)
          /\ Includes(calls[c].seen.file.content, EndMarker)
          /\ ~calls[c].fault.read) =>
            /\ calls[c].dl = "none"
            /\ calls[c].pc = "returned"
            /\ calls[c].certPath = CERT_FILE_PATH

\* C6's case: a bundle with both markers, exactly 30 days old, and a
\* download issued for it
C6_Witness ==
  \E c \in Started :
    /\ Decides(c)
    /\ calls[c].seen.file.age = 30
    /\ Includes(calls[c].seen.file.content, BeginMarker)
    /\ Includes(calls[c].seen.file.content, EndMarker)
    /\ calls[c].dl # "none"

\* C7: with no memoized path and a cache file younger than 30 days that
\* lacks a marker or cannot be read, a download is issued; the path is
\* returned and memoized only after that download succeeded, and null is
\* returned only when that download failed.
C7_CorruptRedownloads ==
  \A c \in Started :
    (/\ Decides(c)
     /\ calls[c].seen.file.age < 30
     /\ \/ ~Includes(calls[c].seen.file.content, BeginMarker)
        \/ ~Includes(calls[c].seen.file.content, EndMarker)
        \/ calls[c].fault.read) =>
      /\ calls[c].dl # "none"
      /\ Truthy(calls[c].certPath) => calls[c].dl = "ok"
      /\ calls[c].certPath = Null => calls[c].dl \in DownloadFailures
      /\ calls[c].dl # "ok" => ~Truthy(certificateCache)

\* C7's case: a recent bundle without the end marker, downloaded again
\* with success
C7_Witness ==
  \E c \in Started :
    /\ Decides(c)
    /\ calls[c].seen.file.age < 30
    /\ calls[c].seen.file.content = <<BeginMarker>>
    /\ calls[c].dl = "ok"
    /\ calls[c].pc = "returned"

\* C8 as stated: when a download has failed and the failure has reached
\* the caller, no file is left at the cache path (a deletion that is
\* queued counts as done).
C8_Original ==
  \A c \in Started :
    calls[c].dl \in DownloadFailures => (~file.exists \/ unlinkPending)

\* C9 as stated: when ensureRdsCertificate has returned a path, the file
\* there has both markers, and so has every bundle loadConfig hands out.
C9_Original ==
  \A c \in Started :
    /\ (calls[c].pc = "returned" /\ Truthy(calls[c].certPath) /\ file.exists) =>
         (Includes(file.content, BeginMarker) /\ Includes(file.content, EndMarker))
    /\ (calls[c].pc = "returned" /\ calls[c].ensured /\ IsVerifyFull(calls[c].db.ssl)) =>
         /\ Includes(calls[c].db.ssl.ca.s, BeginMarker)
         /\ Includes(calls[c].db.ssl.ca.s, EndMarker)

\* C10 as stated: a resolution that is given an explicit SSL mode, or
\* whose host does not contain the suffix, or that takes the defaults,
\* does not call ensureRdsCertificate and issues no download.
C10_Original ==
  \A c \in Built :
    (\/ ExplicitSslMode(calls[c].source)
     \/ ~HostMatches(calls[c].db)
     \/ calls[c].source = 4) =>
      (~calls[c].ensured /\ calls[c].dl = "none")


\* a value that is given and not empty
HasValue(v) == v.t \notin {"undefined", "null"} /\ v # Empty

\* the explicit SSL-mode values given to source k: the two environment
\* variables, the sslmode parameter of the URL (source 2), the sslmode key
\* of config.db (source 3)
ModesGiven(k) ==
  {v \in {env.DB_SSL_MODE, env.POSTGRES_SSL_MODE}
         \cup (IF k = 2 THEN {URL(env.DATABASE_URL).sslmode} ELSE {})
         \cup (IF k = 3 THEN {configFile.value.db.sslmode} ELSE {}) : HasValue(v)}

\* the translation of an explicit SSL-mode value
Translate(m) ==
  IF m = Str(<<"require">>) THEN Opportunistic
  ELSE IF m = Str(<<"disable">>) THEN Bool(FALSE)
  ELSE Bool(TRUE)

\* C11: in each of sources 1-3 an explicit SSL-mode value (when several
\* are given, they agree; for source 3 the sslmode key is one of them) is
\* translated the same way: 'require' to rejectUnauthorized false,
\* 'disable' to false, any other non-empty value to true; the trust bundle
\* is not asked for, and the descriptor of source 3 has no sslmode key.
C11_Translation ==
  \A c \in Built :
    (/\ calls[c].source \in 1..3
     /\ Cardinality(ModesGiven(calls[c].source)) = 1
     /\ calls[c].source = 3 => HasValue(configFile.value.db.sslmode)) =>
      /\ calls[c].pc = "returned"
      /\ ~calls[c].ensured
      /\ calls[c].db.ssl = Translate(CHOOSE m \in ModesGiven(calls[c].source) : TRUE)
      /\ calls[c].source = 3 => calls[c].db.sslmode = Undefined

\* C11's case: config.json with the sslmode key 'verify-full' has resolved
C11_Witness ==
  \E c \in Built :
    /\ calls[c].pc = "returned"
    /\ calls[c].source = 3
    /\ configFile.value.db.sslmode = Str(<<"verify-full">>)
    /\ ModesGiven(3) = {Str(<<"verify-full">>)}
    /\ calls[c].db.ssl = Bool(TRUE)


\* C12 as stated: whenever DB_SSL_MODE or POSTGRES_SSL_MODE has a value
\* and the descriptor is built from source 1, 2 or 3, the TLS mode is the
\* translation of an explicit value and the trust bundle is not asked for;
\* the URL parameter counts for source 2 only and the sslmode key for
\* source 3 only.
C12_Original ==
  \A c \in Built :
    /\ (/\ calls[c].source \in 1..3
        /\ IsSet(env.DB_SSL_MODE) \/ IsSet(env.POSTGRES_SSL_MODE)) =>
         /\ ~calls[c].ensured
         /\ calls[c].db.ssl \in {Opportunistic, Bool(FALSE), Bool(TRUE)}
    /\ (/\ calls[c].source \in {1, 3}
        /\ ModesGiven(calls[c].source) = {}
        /\ HostMatches(calls[c].db)) => calls[c].ensured


\* a variable that is set, to any string (the empty string too)
IsPresent(v) == v.t = "string"

\* the resolutions that built their descriptor from source 1
FromSource1 == {c \in Built : calls[c].source = 1}

\* C13 as stated: for every field whose primary and alias variables are
\* both set, source 1 carries the primary variable's value, also when that
\* value is empty, zero or not a number.
C13_Original ==
  \A c \in FromSource1 :
    /\ (IsPresent(env.DB_HOST) /\ IsPresent(env.POSTGRES_HOST)) =>
         calls[c].db.host = env.DB_HOST
    /\ (IsPresent(env.DB_USER) /\ IsPresent(env.POSTGRES_USER)) =>
         calls[c].db.user = env.DB_USER
    /\ (IsPresent(env.DB_PASSWORD) /\ IsPresent(env.POSTGRES_PASSWORD)) =>
         calls[c].db.password = env.DB_PASSWORD
    /\ (IsPresent(env.DB_NAME) /\ IsPresent(env.POSTGRES_DB)) =>
         calls[c].db.database = env.DB_NAME
    /\ (IsPresent(env.DB_PORT) /\ IsPresent(env.POSTGRES_PORT)) =>
         calls[c].db.port = parseInt(env.DB_PORT)
    /\ (IsSet(env.DB_SSL_MODE) /\ IsSet(env.POSTGRES_SSL_MODE)) =>
         calls[c].db.ssl = Translate(env.DB_SSL_MODE)

\* the first of the two values that is not empty
FirstNonEmpty(a, b) == IF IsSet(a) THEN a ELSE b

\* the port a value gives: its leading integer, and 5432 when it has none
\* or when the integer is 0
PortOf(v) ==
  IF parseInt(v).t = "number" /\ parseInt(v).n # 0 THEN parseInt(v) ELSE Num(5432)

\* C13, amended: for every field whose primary and alias variables are
\* both set, source 1 takes the primary variable's value when it is not
\* empty, and the alias's value when the primary is empty: as it stands
\* for host, user, password and database; translated for the SSL mode; and
\* for the port the leading integer of that value, or 5432 when the value
\* has none or when it is 0 (the other variable is not looked at then).
C13_PrimaryWins ==
  \A c \in FromSource1 :
    /\ (IsPresent(env.DB_HOST) /\ IsSet(env.POSTGRES_HOST)) =>
         calls[c].db.host = FirstNonEmpty(env.DB_HOST, env.POSTGRES_HOST)
    /\ (IsPresent(env.DB_USER) /\ IsSet(env.POSTGRES_USER)) =>
         calls[c].db.user = FirstNonEmpty(env.DB_USER, env.POSTGRES_USER)
    /\ (IsPresent(env.DB_PASSWORD) /\ IsSet(env.POSTGRES_PASSWORD)) =>
         calls[c].db.password = FirstNonEmpty(env.DB_PASSWORD, env.POSTGRES_PASSWORD)
    /\ (IsPresent(env.DB_NAME) /\ IsSet(env.POSTGRES_DB)) =>
         calls[c].db.database = FirstNonEmpty(env.DB_NAME, env.POSTGRES_DB)
    /\ (IsPresent(env.DB_PORT) /\ IsSet(env.POSTGRES_PORT)) =>
         calls[c].db.port = PortOf(FirstNonEmpty(env.DB_PORT, env.POSTGRES_PORT))
    /\ (IsPresent(env.DB_SSL_MODE) /\ IsSet(env.POSTGRES_SSL_MODE)) =>
         calls[c].db.ssl = Translate(FirstNonEmpty(env.DB_SSL_MODE, env.POSTGRES_SSL_MODE))

\* C13's case: host, port and SSL mode each set under both names, and
\* source 1 has returned with the primary ones
C13_Witness ==
  \E c \in FromSource1 :
    /\ calls[c].pc = "returned"
    /\ env.DB_HOST = PlainHost /\ env.POSTGRES_HOST = AliasHost
    /\ env.DB_PORT = Str(<<"6", "5", "4", "3">>) /\ IsSet(env.POSTGRES_PORT)
    /\ env.DB_SSL_MODE = Str(<<"require">>) /\ env.POSTGRES_SSL_MODE = Str(<<"disable">>)
    /\ calls[c].db.host = PlainHost
    /\ calls[c].db.port = Num(6543)
    /\ calls[c].db.ssl = Opportunistic


\* C14 as stated: every descriptor loadConfig returns from the environment
\* variables, from DATABASE_URL or from the defaults has a port that is an
\* integer of 1..65535 and a host that is a non-empty string.
C14_Original ==
  \A c \in Built :
    (calls[c].pc = "returned" /\ calls[c].source \in {1, 2, 4}) =>
      /\ calls[c].db.port.t = "number"
      /\ calls[c].db.port.n \in 1..65535
      /\ IsSet(calls[c].db.host)


\* C15 as stated: loadConfig fails only when config.json is the selected
\* source and cannot be parsed, or DATABASE_URL is the selected source and
\* is no valid URL; the failure ends startup before any connection
\* attempt.
C15_Original ==
  /\ \A c \in Started :
       calls[c].pc = "threw" =>
         \/ calls[c].source = 3 /\ configFile.parse = "error"
         \/ calls[c].source = 2 /\ ~URL(env.DATABASE_URL).ok
  /\ calls[1].pc = "threw" => (app.attempts = 0 /\ app.pc \in {"loading", "aborted"})


\* the connection attempts and the waits of initializeApp, in each of its
\* positions
RetryBudget ==
  /\ app.attempts \in 0..3
  /\ app.pc \in {"loading", "aborted"} => (app.attempts = 0 /\ app.waits = 0)
  /\ app.pc = "connecting" => (app.attempts <= 2 /\ app.waits = app.attempts)
  /\ app.pc = "waiting" => (app.attempts \in 1..2 /\ app.waits = app.attempts - 1)
  /\ app.pc = "serving" => (app.attempts \in 1..3 /\ app.waits = app.attempts - 1)
  /\ app.pc = "fatal" => (app.attempts = 3 /\ app.waits = 2)
  /\ (app.attempts = 3 /\ app.pc # "serving") => app.pc = "fatal"

\* initializeApp has ended: nothing more is attempted
StopsWhenEnded == app.pc \in {"serving", "fatal", "aborted"} => app' = app

\* C16: initializeApp makes at most 3 connection attempts, makes none
\* after a success, waits once between two attempts and never after the
\* last failure or after a success, and raises the fatal error exactly
\* when 3 attempts have failed.
C16_RetryBudget == []RetryBudget /\ [][StopsWhenEnded]_vars

\* C16's case: the third attempt has failed and the fatal error is raised
C16_Witness == app.pc = "fatal" /\ app.attempts = 3 /\ app.waits = 2


\* C17: a URI proto://u:p@h:PORT/dbname[?sslmode=M] resolves through
\* source 2 to host h, user u, password p, database dbname, port PORT (a
\* port of 1..65535) or 5432 when the URI has no port, and to
\* rejectUnauthorized false when M is 'require'.
C17_UriFields ==
  \A c \in Built :
    (/\ calls[c].source = 2
     /\ env.DATABASE_URL \in {UrlPlain, UrlNoPort, UrlVerifyFull, UrlDisable}) =>
      /\ calls[c].pc = "returned"
      /\ calls[c].db.host = Str(<<"h">>)
      /\ calls[c].db.user = Str(<<"u">>)
      /\ calls[c].db.password = Str(<<"p">>)
      /\ calls[c].db.database = Str(<<"dbname">>)
      /\ calls[c].db.port = IF env.DATABASE_URL = UrlNoPort THEN Num(5432) ELSE Num(1234)
      /\ env.DATABASE_URL = UrlPlain => calls[c].db.ssl = Opportunistic

\* C17's case: postgresql://u:p@h:1234/dbname?sslmode=require has resolved
C17_Witness ==
  \E c \in Built :
    /\ calls[c].pc = "returned"
    /\ calls[c].source = 2
    /\ env.DATABASE_URL = UrlPlain
    /\ calls[c].db.port = Num(1234)
    /\ calls[c].db.ssl = Opportunistic


\* a step in which check_certificate_cache gives a new result
ChecksCache == tool' # tool /\ tool'.name = "check_certificate_cache"

\* what such a step does
ReadOnlyStatus ==
  ChecksCache =>
    /\ UNCHANGED <<certificateCache, dirExists, file, unlinkPending, downloads, nulls,
                   calls, app>>
    /\ ~tool'.isError
    /\ tool'.status.exists = file.exists
    /\ file.exists =>
         /\ tool'.status.expired = (file.age >= 30)
         /\ tool'.status.expired =
              (ensureSync(Null, TRUE, File(TRUE, file.age, <<BeginMarker, EndMarker>>),
                          NoFault) = "download")

\* C18: check_certificate_cache is read-only - no download, no change of
\* the cache directory, of the cache file or of the memoized path - and
\* reports exists false for an absent file and otherwise an expired flag
\* that is true exactly when the file is 30 days old or older, which is
\* exactly when ensureRdsCertificate downloads a well-formed file again.
C18_ReadOnlyStatus == [][ReadOnlyStatus]_vars

\* C18's case: the status of a cache file exactly 30 days old was asked
\* for, and says expired
C18_Witness ==
  /\ tool.name = "check_certificate_cache"
  /\ tool.status.exists
  /\ tool.status.ageInDays = 30
  /\ tool.status.expired


\* the word at i begins a statement of the query text s: it is the first
\* word of the text, or the word after a semicolon
BeginsStatement(s, i) ==
  /\ s[i] \notin {" ", ";"}
  /\ \/ \A j \in 1..(i - 1) : s[j] = " "
     \/ i > 1 /\ s[i - 1] = ";"

\* the query is a text made of SELECT statements only
IsSelectOnly(query) ==
  /\ query.t = "string"
  /\ \E i \in 1..Len(query.s) : BeginsStatement(query.s, i)
  /\ \A i \in 1..Len(query.s) :
       BeginsStatement(query.s, i) => query.s[i] \in {"select", "SELECT", "Select"}

\* C19 as stated: execute_query sends a query to the database only if it
\* is a SELECT statement; a missing query or a query that is not a SELECT
\* gives an error result and no database call.
C19_Original ==
  tool.name = "execute_query" =>
    /\ tool.sent => IsSelectOnly(tool.query)
    /\ ~IsSelectOnly(tool.query) => (tool.isError /\ ~tool.sent)


\* the memo is null or the cache path, and a call of ensureRdsCertificate
\* that found the memo set has returned it at once, with no download
MemoReturned ==
  /\ certificateCache \in {Null, CERT_FILE_PATH}
  /\ \A c \in Started :
       (calls[c].ensured /\ Truthy(calls[c].seen.memo)) =>
         /\ calls[c].pc = "returned"
         /\ calls[c].certPath = calls[c].seen.memo
         /\ calls[c].certPath = CERT_FILE_PATH
         /\ calls[c].dl = "none"

\* once set the memo stays, no download is issued, and a resolution that
\* starts touches neither the cache directory nor the cache file
MemoStays ==
  Truthy(certificateCache) =>
    /\ certificateCache' = certificateCache
    /\ downloads' = downloads
    /\ nulls' = nulls
    /\ (\E c \in Calls : calls[c].pc = "idle" /\ calls'[c].pc # "idle") =>
         UNCHANGED <<dirExists, file, unlinkPending>>

\* C20: once ensureRdsCertificate has returned a path, every later call
\* returns that path at once, without a download, without touching the
\* cache directory or the cache file and without looking at the file -
\* be it older than 30 days, damaged or gone; the memo is null or the
\* cache path and never goes back to null.
C20_MemoIsFinal == []MemoReturned /\ [][MemoStays]_vars

\* C20's case: the memo was set and the cache file had become 30 days old
\* when a later resolution asked for the bundle and got the path
C20_Witness ==
  \E c \in Started :
    /\ calls[c].ensured
    /\ calls[c].seen.memo = CERT_FILE_PATH
    /\ calls[c].seen.file.exists
    /\ calls[c].seen.file.age >= 30
    /\ calls[c].pc = "returned"
    /\ calls[c].certPath = CERT_FILE_PATH


\* the resolutions whose download is in flight
InFlight == {c \in Calls : calls[c].dl = "pending"}

\* C21 as written: at most one download is in flight at any time, also
\* when a resolution is started before an earlier one has returned.
C21_Original == Cardinality(InFlight) <= 1

\* C21: the memo check stops a download only once a path has been memoized:
\* every download in flight belongs to a resolution that found the memo
\* null, and two downloads are in flight only when the later resolution
\* entered ensureRdsCertificate while the earlier awaited its download
\* (never when resolutions follow one another).
C21_OnePerSequentialCall ==
  /\ \A c \in InFlight : ~Truthy(calls[c].seen.memo)
  /\ \A c, d \in InFlight : c < d => c \in calls[d].overlaps

\* two resolutions stream into the file at the cache path at once
C21_Witness ==
  \E c, d \in InFlight :
    /\ c < d
    /\ calls[c].pc = "piping" /\ calls[d].pc = "piping"
    /\ calls[c].linked /\ calls[d].linked
    /\ calls[c].sent > 0 /\ calls[d].sent > 0


\* initializeApp is past await loadConfig()
PastLoading == app.pc \in {"connecting", "waiting", "serving", "fatal"}

\* initializeApp has ended without a connection
StartupFailed == app.pc \in {"aborted", "fatal"}

\* the order of startup, in a state
StartupOrder ==
  /\ PastLoading => calls[1].pc = "returned" /\ InFlight = {}
  /\ StartupFailed => tool = NoTool
  /\ app.pc = "aborted" => calls[1].pc = "threw"
  /\ app.pc = "serving" =>
       app.retries > 0 /\ app.attempts = InitialRetries - app.retries + 1
  /\ tool # NoTool => app.pc = "serving"
  /\ downloads <= 1
  /\ \A c \in Calls : c > 1 => calls[c] = IdleCall

\* the order of startup, in a step
StartupStep ==
  /\ tool' # tool => app.pc = "serving" /\ app' = app
  /\ StartupFailed => app' = app /\ tool' = tool
  /\ app.pc = "loading" /\ calls[1].pc \notin {"returned", "threw"} => app' = app

\* C22: the resolution (with at most one download) has returned before the
\* first connection attempt, a tool is handled only once a connection
\* attempt has succeeded, and after a failed resolution or the last failed
\* attempt no tool is ever handled.
C22_StartupSequential == []StartupOrder /\ [][StartupStep]_vars

\* a tool is handled after a download, a failed attempt and a retry
C22_Witness ==
  /\ tool # NoTool
  /\ downloads = 1
  /\ app.waits >= 1
  /\ calls[1].dl = "ok"


\* C23 as stated: every call of ensureRdsCertificate that awaits its
\* download eventually returns, whatever the outcome of the download, a
\* body that stops after the headers included.
C23_Original ==
  \A c \in Calls : (calls[c].dl = "pending") ~> (calls[c].pc = "returned")


\* a call enters ensureRdsCertificate in this step and comes back with
\* the path of the file it found, without a download
AcceptsFile ==
  \E c \in Calls :
    /\ calls[c].pc = "idle"
    /\ calls'[c].ensured
    /\ calls'[c].pc = "returned"
    /\ calls'[c].certPath = CERT_FILE_PATH
    /\ certificateCache' = CERT_FILE_PATH

\* C24 as stated: a file left at the cache path by a download that did not
\* finish (no deletion of it pending) is never memoized and returned by a
\* later call of ensureRdsCertificate, in this process or the next one.
C24_Original ==
  [][(leftover /\ file.exists /\ ~unlinkPending /\ ~Truthy(certificateCache))
       => ~AcceptsFile]_vars

====
